---- MODULE Spec2Model ----
(***************************************************************************)
(* Model of fel4-config's configuration types (src/src/types.rs): the      *)
(* three identifier enums with their canonical names, name lists, Display  *)
(* and FromStr implementations, and the flat value domain.  Rust strings   *)
(* are TLA+ strings; a Result is a record [ok, val] (Ok(v) / Err(e)).      *)
(***************************************************************************)
EXTENDS FiniteSets, Integers, Sequences, TLC

VARIABLES
    op,        \* identifier API: the last operation performed
    kind,      \* enum type the current text was produced from
    src,       \* variant the current text was produced from
    origin,    \* how the current text came about: input / full_name / display
    text,      \* the string in hand (a &str)
    pkind,     \* enum type whose from_str was last run
    res,       \* Result of the last from_str
    list,      \* Vec returned by the last list operation
    fop,       \* flat value domain: the last operation performed
    targ,      \* structured value (toml::Value) the caller holds
    conv,      \* what converting it to a FlatTomlValue gives
    pargs,     \* arguments of the last FlatTomlProperty::new
    prop       \* FlatTomlProperty last constructed

identVars == <<op, kind, src, origin, text, pkind, res, list>>
flatVars == <<fop, targ, conv, pargs, prop>>
vars == <<op, kind, src, origin, text, pkind, res, list,
          fop, targ, conv, pargs, prop>>

\* ------------------------------------------------------------------------
\* Bounds of the explored inputs

\* longest run of whitespace put before or after a name
MaxPad == 1
\* integer payloads of structured values are -MaxInt..MaxInt
MaxInt == 1
\* longest array in a structured value
MaxLen == 2

\* ------------------------------------------------------------------------
\* Result<T, E>

Ok(v) == [ok |-> TRUE, val |-> v]

Err(e) == [ok |-> FALSE, val |-> e]

NoResult == [ok |-> FALSE, val |-> "<none>"]

NoVariant == "<none>"

\* ------------------------------------------------------------------------
\* Letter case and whitespace of strings

UpperOf ==
    [a |-> "A", b |-> "B", c |-> "C", d |-> "D", e |-> "E", f |-> "F",
     g |-> "G", h |-> "H", i |-> "I", j |-> "J", k |-> "K", l |-> "L",
     m |-> "M", n |-> "N", o |-> "O", p |-> "P", q |-> "Q", r |-> "R",
     s |-> "S", t |-> "T", u |-> "U", v |-> "V", w |-> "W", x |-> "X",
     y |-> "Y", z |-> "Z"]

UpperChar(c) == IF c \in DOMAIN UpperOf THEN UpperOf[c] ELSE c

RECURSIVE ToUpper(_)
ToUpper(s) == IF s = "" THEN "" ELSE UpperChar(Head(s)) \o ToUpper(Tail(s))

Capitalize(s) == IF s = "" THEN "" ELSE UpperChar(Head(s)) \o Tail(s)

WhitespaceChars == {" ", "\t", "\n"}

RECURSIVE Pads(_)
Pads(n) ==
    IF n = 0 THEN {}
    ELSE WhitespaceChars \cup {w \o c : w \in Pads(n - 1), c \in WhitespaceChars}

\* ------------------------------------------------------------------------
\* SupportedTarget

SupportedTarget == {"X8664Sel4Fel4", "Armv7Sel4Fel4", "Aarch64Sel4Fel4"}

TARGET_X86_64_SEL4_FEL4 == "x86_64-sel4-fel4"

\* mutant: a misspelt token
TARGET_ARMV7_SEL4_FEL4_misspelt == "arm7-sel4-fel4"

TARGET_ARMV7_SEL4_FEL4 == "armv7-sel4-fel4"

TARGET_AARCH64_SEL4_FEL4 == "aarch64-sel4-fel4"

SupportedTarget_full_name(t) ==
    CASE t = "X8664Sel4Fel4" -> TARGET_X86_64_SEL4_FEL4
      [] t = "Armv7Sel4Fel4" -> TARGET_ARMV7_SEL4_FEL4
      [] t = "Aarch64Sel4Fel4" -> TARGET_AARCH64_SEL4_FEL4

SupportedTarget_targets ==
    <<"X8664Sel4Fel4", "Armv7Sel4Fel4", "Aarch64Sel4Fel4">>

SupportedTarget_target_names ==
    [i \in 1..Len(SupportedTarget_targets) |->
        SupportedTarget_full_name(SupportedTarget_targets[i])]

SupportedTarget_fmt(t) == SupportedTarget_full_name(t)

\* mutant: the match ignores letter case
SupportedTarget_from_str_nocase(s) ==
    CASE ToUpper(s) = ToUpper(TARGET_X86_64_SEL4_FEL4) -> Ok("X8664Sel4Fel4")
      [] ToUpper(s) = ToUpper(TARGET_ARMV7_SEL4_FEL4) -> Ok("Armv7Sel4Fel4")
      [] ToUpper(s) = ToUpper(TARGET_AARCH64_SEL4_FEL4) -> Ok("Aarch64Sel4Fel4")
      [] OTHER -> Err(s)

SupportedTarget_from_str(s) ==
    CASE s = TARGET_X86_64_SEL4_FEL4 -> Ok("X8664Sel4Fel4")
      [] s = TARGET_ARMV7_SEL4_FEL4 -> Ok("Armv7Sel4Fel4")
      [] s = TARGET_AARCH64_SEL4_FEL4 -> Ok("Aarch64Sel4Fel4")
      [] OTHER -> Err(s)

\* ------------------------------------------------------------------------
\* SupportedPlatform

SupportedPlatform == {"PC99", "Sabre", "Tx1"}

PLATFORM_PC99 == "pc99"

PLATFORM_SABRE == "sabre"

PLATFORM_TX1 == "tx1"

SupportedPlatform_full_name(p) ==
    CASE p = "PC99" -> PLATFORM_PC99
      [] p = "Sabre" -> PLATFORM_SABRE
      [] p = "Tx1" -> PLATFORM_TX1

\* mutant: a variant listed twice, another left out
SupportedPlatform_platforms_dup == <<"PC99", "Sabre", "Sabre">>

SupportedPlatform_platforms == <<"PC99", "Sabre", "Tx1">>

SupportedPlatform_platform_names ==
    [i \in 1..Len(SupportedPlatform_platforms) |->
        SupportedPlatform_full_name(SupportedPlatform_platforms[i])]

SupportedPlatform_fmt(p) == SupportedPlatform_full_name(p)

\* mutant: two arms of the match exchanged
SupportedPlatform_from_str_swapped(s) ==
    CASE s = PLATFORM_PC99 -> Ok("PC99")
      [] s = PLATFORM_SABRE -> Ok("Tx1")
      [] s = PLATFORM_TX1 -> Ok("Sabre")
      [] OTHER -> Err(s)

SupportedPlatform_from_str(s) ==
    CASE s = PLATFORM_PC99 -> Ok("PC99")
      [] s = PLATFORM_SABRE -> Ok("Sabre")
      [] s = PLATFORM_TX1 -> Ok("Tx1")
      [] OTHER -> Err(s)

\* ------------------------------------------------------------------------
\* BuildProfile

BuildProfile == {"Debug", "Release"}

BUILD_PROFILE_DEBUG == "debug"

\* mutant: the constant of another type copied
BUILD_PROFILE_RELEASE_copied == PLATFORM_SABRE

BUILD_PROFILE_RELEASE == "release"

BuildProfile_full_name(b) ==
    CASE b = "Debug" -> BUILD_PROFILE_DEBUG
      [] b = "Release" -> BUILD_PROFILE_RELEASE

BuildProfile_build_profiles == <<"Debug", "Release">>

BuildProfile_build_profile_names ==
    [i \in 1..Len(BuildProfile_build_profiles) |->
        BuildProfile_full_name(BuildProfile_build_profiles[i])]

\* mutant: the error is a message, not the input
BuildProfile_from_str_msg(s) ==
    CASE s = BUILD_PROFILE_DEBUG -> Ok("Debug")
      [] s = BUILD_PROFILE_RELEASE -> Ok("Release")
      [] OTHER -> Err("unknown build profile: " \o s)

BuildProfile_from_str(s) ==
    CASE s = BUILD_PROFILE_DEBUG -> Ok("Debug")
      [] s = BUILD_PROFILE_RELEASE -> Ok("Release")
      [] OTHER -> Err(s)

\* ------------------------------------------------------------------------
\* The three enum types side by side

Kinds == {"SupportedTarget", "SupportedPlatform", "BuildProfile"}

VariantsOf(k) ==
    CASE k = "SupportedTarget" -> SupportedTarget
      [] k = "SupportedPlatform" -> SupportedPlatform
      [] k = "BuildProfile" -> BuildProfile

full_name(k, v) ==
    CASE k = "SupportedTarget" -> SupportedTarget_full_name(v)
      [] k = "SupportedPlatform" -> SupportedPlatform_full_name(v)
      [] k = "BuildProfile" -> BuildProfile_full_name(v)

all_variants(k) ==
    CASE k = "SupportedTarget" -> SupportedTarget_targets
      [] k = "SupportedPlatform" -> SupportedPlatform_platforms
      [] k = "BuildProfile" -> BuildProfile_build_profiles

all_names(k) ==
    CASE k = "SupportedTarget" -> SupportedTarget_target_names
      [] k = "SupportedPlatform" -> SupportedPlatform_platform_names
      [] k = "BuildProfile" -> BuildProfile_build_profile_names

from_str(k, s) ==
    CASE k = "SupportedTarget" -> SupportedTarget_from_str(s)
      [] k = "SupportedPlatform" -> SupportedPlatform_from_str(s)
      [] k = "BuildProfile" -> BuildProfile_from_str(s)

\* The types that implement Display: SupportedTarget and SupportedPlatform.
\* BuildProfile has no Display implementation.
DisplayImpls == {"SupportedTarget", "SupportedPlatform"}

fmt(k, v) ==
    CASE k = "SupportedTarget" -> SupportedTarget_fmt(v)
      [] k = "SupportedPlatform" -> SupportedPlatform_fmt(v)

\* Formatting v with "{}": the Display output where the type has one.
to_string(k, v) ==
    IF k \in DisplayImpls
    THEN [impl |-> TRUE, out |-> fmt(k, v)]
    ELSE [impl |-> FALSE, out |-> ""]

\* ------------------------------------------------------------------------
\* Strings handed to the parsers

CanonicalNames ==
    UNION {{full_name(k, v) : v \in VariantsOf(k)} : k \in Kinds}

Prefixes(s) == {SubSeq(s, 1, n) : n \in 0..(Len(s) - 1)}

Inputs ==
    CanonicalNames
    \cup {ToUpper(s) : s \in CanonicalNames}
    \cup {Capitalize(s) : s \in CanonicalNames}
    \cup {w \o s : w \in Pads(MaxPad), s \in CanonicalNames}
    \cup {s \o w : w \in Pads(MaxPad), s \in CanonicalNames}
    \cup UNION {Prefixes(s) : s \in CanonicalNames}
    \cup {s \o "x" : s \in CanonicalNames}
    \cup {"", "global", "x86_64", "arm", "X8664Sel4Fel4", "PC99"}

\* ------------------------------------------------------------------------
\* Identifier API: state machine of a caller using it

InitIdent ==
    /\ op = "init"
    /\ kind = "none"
    /\ src = NoVariant
    /\ origin = "none"
    /\ text = ""
    /\ pkind = "none"
    /\ res = NoResult
    /\ list = <<>>

\* the caller obtains a string from configuration text or the command line
Input(s) ==
    /\ op' = "input"
    /\ kind' = "none"
    /\ src' = NoVariant
    /\ origin' = "input"
    /\ text' = s
    /\ pkind' = "none"
    /\ res' = NoResult
    /\ list' = <<>>

\* v.full_name()
FullName(k, v) ==
    /\ op' = "full_name"
    /\ kind' = k
    /\ src' = v
    /\ origin' = "full_name"
    /\ text' = full_name(k, v)
    /\ pkind' = "none"
    /\ res' = NoResult
    /\ list' = <<>>

\* v.to_string() through Display, for the types that implement it
Display(k, v) ==
    /\ to_string(k, v).impl
    /\ op' = "display"
    /\ kind' = k
    /\ src' = v
    /\ origin' = "display"
    /\ text' = to_string(k, v).out
    /\ pkind' = "none"
    /\ res' = NoResult
    /\ list' = <<>>

\* text.parse::<k>()
FromStr(k) ==
    /\ origin # "none"
    /\ op' = "from_str"
    /\ pkind' = k
    /\ res' = from_str(k, text)
    /\ UNCHANGED <<kind, src, origin, text, list>>

\* targets() / platforms() / build_profiles()
Variants(k) ==
    /\ op' = "variants"
    /\ kind' = k
    /\ list' = all_variants(k)
    /\ src' = NoVariant
    /\ origin' = "none"
    /\ text' = ""
    /\ pkind' = "none"
    /\ res' = NoResult

\* target_names() / platform_names() / build_profile_names()
Names(k) ==
    /\ op' = "names"
    /\ kind' = k
    /\ list' = all_names(k)
    /\ src' = NoVariant
    /\ origin' = "none"
    /\ text' = ""
    /\ pkind' = "none"
    /\ res' = NoResult

\* ------------------------------------------------------------------------
\* Flat value domain

\* the variants of FlatTomlValue
FlatKinds == {"String", "Integer", "Float", "Boolean", "Datetime"}

\* payloads: a float is written as its literal, a datetime as its text
PayloadsOf(kd) ==
    CASE kd = "String" -> {"", "x"}
      [] kd = "Integer" -> (-MaxInt)..MaxInt
      [] kd = "Float" -> {"0.5", "-1.5"}
      [] kd = "Boolean" -> BOOLEAN
      [] kd = "Datetime" -> {"1979-05-27T07:32:00Z"}

\* toml::Value: the scalars, and arrays and tables of values
TomlScalars ==
    UNION {{[kind |-> kd, val |-> x] : x \in PayloadsOf(kd)} : kd \in FlatKinds}

TomlKeys == {"k"}

TomlElems ==
    TomlScalars
    \cup {[kind |-> "Array", val |-> <<[kind |-> "Integer", val |-> 0]>>],
          [kind |-> "Table", val |-> [k |-> [kind |-> "Integer", val |-> 0]]]}

TomlArrays ==
    {[kind |-> "Array", val |-> a] :
        a \in UNION {[1..n -> TomlElems] : n \in 0..MaxLen}}

TomlTables ==
    {[kind |-> "Table", val |-> t] :
        t \in UNION {[ks -> TomlElems] : ks \in SUBSET TomlKeys}}

TomlValue == TomlScalars \cup TomlArrays \cup TomlTables

\* mutant: the flat domain is the whole of toml::Value
FlatTomlValue_nested == TomlValue

\* the values of the enum FlatTomlValue
FlatTomlValue ==
    UNION {{[kind |-> kd, val |-> x] : x \in PayloadsOf(kd)} : kd \in FlatKinds}

\* mutant: an empty name is replaced
FlatTomlProperty_new_renamed(name, value) ==
    [name |-> IF name = "" THEN "unnamed" ELSE name, value |-> value]

\* FlatTomlProperty::new
FlatTomlProperty_new(name, value) == [name |-> name, value |-> value]

\* The conversions into FlatTomlValue that types.rs defines (From, TryFrom
\* or a function taking a toml::Value): none.  The enum has its five
\* constructors and the derived PartialEq, Clone and Debug only.
FlatTomlValue_conversions == {}

\* converting a structured value to a FlatTomlValue, where implemented
convert(v) ==
    [impl |-> "toml::Value" \in FlatTomlValue_conversions,
     ok |-> FALSE,
     val |-> "<none>"]

NoConversion == [impl |-> FALSE, ok |-> FALSE, val |-> "<none>"]

PropNameInputs == {"", "a", "b"}

NoValue == [kind |-> "none", val |-> 0]

NoProperty == [name |-> "<none>", value |-> NoValue]

InitFlat ==
    /\ fop = "init"
    /\ targ = NoValue
    /\ conv = NoConversion
    /\ pargs = <<"<none>", NoValue>>
    /\ prop = NoProperty

\* the caller holds a structured value read from configuration text and
\* wants it as a FlatTomlValue
Receive(v) ==
    /\ fop' = "value"
    /\ targ' = v
    /\ conv' = convert(v)
    /\ pargs' = <<"<none>", NoValue>>
    /\ prop' = NoProperty

\* FlatTomlProperty::new(name, value)
PropertyNew(name, value) ==
    /\ fop' = "new"
    /\ pargs' = <<name, value>>
    /\ prop' = FlatTomlProperty_new(name, value)
    /\ targ' = NoValue
    /\ conv' = NoConversion

\* ------------------------------------------------------------------------
\* Specifications

Init == InitIdent /\ InitFlat

Next ==
    \/ (\E s \in Inputs : Input(s)) /\ UNCHANGED flatVars
    \/ (\E k \in Kinds : \E v \in VariantsOf(k) : FullName(k, v))
          /\ UNCHANGED flatVars
    \/ (\E k \in Kinds : \E v \in VariantsOf(k) : Display(k, v))
          /\ UNCHANGED flatVars
    \/ (\E k \in Kinds : FromStr(k)) /\ UNCHANGED flatVars
    \/ (\E k \in Kinds : Variants(k)) /\ UNCHANGED flatVars
    \/ (\E k \in Kinds : Names(k)) /\ UNCHANGED flatVars

Spec == Init /\ [][Next]_vars

InitF == InitIdent /\ InitFlat

NextFlat ==
    \/ (\E v \in TomlValue : Receive(v)) /\ UNCHANGED identVars
    \/ (\E n \in PropNameInputs : \E v \in FlatTomlValue : PropertyNew(n, v))
          /\ UNCHANGED identVars

SpecFlat == InitF /\ [][NextFlat]_vars

\* ------------------------------------------------------------------------
\* Properties

\* the stable identifier tokens, variant by variant
SpecToken ==
    [X8664Sel4Fel4 |-> "x86_64-sel4-fel4",
     Armv7Sel4Fel4 |-> "armv7-sel4-fel4",
     Aarch64Sel4Fel4 |-> "aarch64-sel4-fel4",
     PC99 |-> "pc99",
     Sabre |-> "sabre",
     Tx1 |-> "tx1",
     Debug |-> "debug",
     Release |-> "release"]

SpecTokensOf(k) == {SpecToken[v] : v \in VariantsOf(k)}

NamesOf(k) == {full_name(k, v) : v \in VariantsOf(k)}

\* C1: parsing the string returned by v.full_name() with the from_str of v's
\* own type returns Ok(v), for every variant of the three enums.
C1_RoundTrip ==
    (op = "from_str" /\ origin = "full_name" /\ pkind = kind) => res = Ok(src)

C1_Witness ==
    /\ op = "from_str" /\ origin = "full_name"
    /\ kind = "SupportedPlatform" /\ pkind = kind
    /\ src = "Tx1" /\ text = "tx1" /\ res = Ok("Tx1")

\* C2: from_str of each type returns an error for every string that is not
\* exactly one of the type's canonical names (other letter case, surrounding
\* whitespace, a prefix, the empty string, a name of another type).
C2_RejectsNonCanonical ==
    (op = "from_str" /\ text \notin NamesOf(pkind)) => ~res.ok

C2_Witness ==
    /\ op = "from_str" /\ pkind = "SupportedTarget"
    /\ text = ToUpper(TARGET_ARMV7_SEL4_FEL4) /\ text # TARGET_ARMV7_SEL4_FEL4
    /\ ~res.ok

\* C3: every one of the three enum types has a Display form identical to
\* full_name(), so parsing the displayed string gives the variant back.
C3_DisplayForAll ==
    /\ op = "full_name" =>
          (to_string(kind, src).impl /\ to_string(kind, src).out = text)
    /\ (op = "from_str" /\ origin = "display" /\ pkind = kind) => res = Ok(src)

\* C4: each name list is as long as the enum has variants, has no duplicate,
\* its i-th element is full_name() of the i-th variant of the variant list,
\* and the variant list holds every variant exactly once.
C4_NameLists ==
    /\ op = "names" =>
          /\ Len(list) = Cardinality(VariantsOf(kind))
          /\ \A i, j \in 1..Len(list) : list[i] = list[j] => i = j
          /\ Len(list) = Len(all_variants(kind))
          /\ \A i \in 1..Len(list) :
                list[i] = full_name(kind, all_variants(kind)[i])
    /\ op = "variants" =>
          \A v \in VariantsOf(kind) :
              Cardinality({i \in 1..Len(list) : list[i] = v}) = 1

C4_Witness ==
    /\ op = "names" /\ kind = "SupportedPlatform"
    /\ list = <<"pc99", "sabre", "tx1">>

\* C5: full_name produces, and from_str accepts, exactly the stable tokens
\* x86_64-sel4-fel4, armv7-sel4-fel4, aarch64-sel4-fel4, pc99, sabre, tx1,
\* debug, release, each for its own variant, and nothing else.
C5_StableTokens ==
    /\ op = "full_name" => text = SpecToken[src]
    /\ op = "from_str" =>
          /\ res.ok <=> text \in SpecTokensOf(pkind)
          /\ res.ok => (res.val \in VariantsOf(pkind) /\ SpecToken[res.val] = text)

C5_Witness ==
    /\ op = "from_str" /\ origin = "input" /\ pkind = "SupportedTarget"
    /\ text = "armv7-sel4-fel4" /\ res = Ok("Armv7Sel4Fel4")

\* C6 as stated: a failed parse yields an error that identifies the kind of
\* identifier, so the errors of two parsers on the same input differ.
C6_ErrorNamesKind ==
    (op = "from_str" /\ ~res.ok) =>
        \A k \in Kinds \ {pkind} :
            ~from_str(k, text).ok => from_str(k, text).val # res.val

\* C6 amended: a failed parse yields the input string itself, verbatim, as
\* the error; the error is the same whichever of the three parsers fails.
C6_ErrorIsInput ==
    (op = "from_str" /\ ~res.ok) =>
        /\ res.val = text
        /\ \A k \in Kinds : ~from_str(k, text).ok => from_str(k, text) = res

C6_Witness ==
    /\ op = "from_str" /\ pkind = "BuildProfile"
    /\ text = "Debug" /\ res = Err("Debug")

C9_NameNonEmpty == fop = "new" => prop.name # ""

\* C9 amended: FlatTomlProperty::new(name, value) stores the name and the
\* value it is given, unchanged and unchecked; an empty name stays empty.
C9_NewStoresArguments ==
    fop = "new" => (prop.name = pargs[1] /\ prop.value = pargs[2])

C9_Witness ==
    /\ fop = "new" /\ pargs[1] = "" /\ prop.name = ""
    /\ prop.value = [kind |-> "Boolean", val |-> TRUE]

\* C10: the canonical names of the three types are pairwise disjoint and
\* none is "global": at most one of the three parsers accepts any string.
C10_DisjointNames ==
    op = "from_str" =>
        /\ Cardinality({k \in Kinds : from_str(k, text).ok}) <= 1
        /\ text = "global" => \A k \in Kinds : ~from_str(k, text).ok

C10_Witness ==
    /\ op = "from_str" /\ pkind = "SupportedPlatform" /\ text = "release"
    /\ ~res.ok /\ from_str("BuildProfile", text).ok

====
